---- MODULE Spec2Model ----
(***************************************************************************)
(* Model of the clock-steering Unix adapter (src/src/unix.rs, Linux        *)
(* build) and of the kernel clock it steers.                               *)
(*                                                                         *)
(* Bit masks (timex.modes, timex.status) are modelled as the set of their  *)
(* set bits, each bit named by its libc value: OR is \cup, AND-NOT is \.   *)
(* A float ppm is modelled by the exact count of 2^-18 ppm units, so that  *)
(* ppm * 65536 is the exact quotient units / 4 (a multiplication of a      *)
(* binary float by a power of two is exact), plus the three non-finite     *)
(* floats.                                                                 *)
(***************************************************************************)
EXTENDS Integers, Sequences, FiniteSets, TLC

VARIABLES clock, kernel, ops, pc, arg, timex, raced, last

vars == <<clock, kernel, ops, pc, arg, timex, raced, last>>

----------------------------------------------------------------------------
(* Shapes of the records.  Every record of the model lists its fields in    *)
(* the order of this section.                                               *)

NoTime == [tv_sec |-> 0, tv_usec |-> 0]

EMPTY_TIMESPEC == [tv_sec |-> 0, tv_nsec |-> 0]

\* a sample of the correlation ioctl (ptp_clock_time)
ptp_clock_time(s, n) == [sec |-> s, nsec |-> n]

Timestamp(s, n) == [seconds |-> s, nanos |-> n]

\* no Timestamp was returned
NoTs == [seconds |-> 0, nanos |-> -1]

EMPTY_TIMEX == [modes |-> {}, freq |-> 0, maxerror |-> 0, esterror |-> 0,
                status |-> {}, constant |-> 0, time |-> NoTime, tai |-> 0]

\* a syscall that was issued and the errno it failed with (0: it succeeded)
Call(c, n) == [call |-> c, errno |-> n]

\* a syscall of system_offset: the clock it was issued on and the instant the
\* kernel gave in answer (NoTs: none)
CallOn(c, n, clk, t) == [call |-> c, errno |-> n, on |-> clk, got |-> t]

\* the operation last begun on the clock: its argument, the request it built,
\* the record the kernel handed back, the direct read it made, its syscalls
\* in order, its result, the Timestamp or the number it returned
NoEvent == [arg |-> "none", raced |-> FALSE, op |-> "none", req |-> EMPTY_TIMEX,
            reply |-> EMPTY_TIMEX, raw |-> EMPTY_TIMESPEC, calls |-> <<>>,
            res |-> "none", ts |-> NoTs, val |-> 0]

\* the kernel clock in its default state, holding a given status word
KernelWith(s) == [freq |-> 0, maxerror |-> 0, esterror |-> 0, status |-> s,
                  tai |-> 0, stepped |-> 0]

\* a float: [kind |-> "finite", q |-> units of 2^-18], or a non-finite one
Finite(u) == [kind |-> "finite", q |-> u]
NaN == [kind |-> "nan", q |-> 0]
PosInf == [kind |-> "inf", q |-> 1]
NegInf == [kind |-> "inf", q |-> -1]

\* a c_long that may be saturated: [sat |-> -1 / 0 / 1, v |-> value]
Long(x) == [sat |-> 0, v |-> x]

\* a Duration of laps * 2^64 + ns nanoseconds
Duration(k, w) == [laps |-> k, ns |-> w]

\* a UnixClock value: the clock identity and the device handle it keeps
UnixClock(c, f) == [id |-> c, fd |-> f]

----------------------------------------------------------------------------
(* Bounds of the model *)

\* whole seconds a raw time field may hold: -1 .. MaxSec
MaxSec == 1
\* TAI offsets passed to set_tai: 0 .. MaxTai
MaxTai == 1
\* half-width of the windows of ppm inputs around the interesting points
PpmWindow == 9
\* half-width of the windows of raw sub-second inputs
NsecWindow == 3
\* error numbers handed to convert_errno: 1 .. MaxErrno
MaxErrno == 133
\* operations on the kernel clock (the program's and other processes') in a run
MaxOps == 1
\* half-width of the windows of raw device handles
FdWindow == 3

----------------------------------------------------------------------------
(* libc constants (Linux) *)

MOD_FREQUENCY == 2
MOD_MAXERROR == 4
MOD_ESTERROR == 8
MOD_STATUS == 16
ADJ_TAI == 128
ADJ_SETOFFSET == 256
ADJ_NANO == 8192

STA_PLL == 1
STA_PPSFREQ == 2
STA_PPSTIME == 4
STA_FLL == 8
STA_INS == 16
STA_DEL == 32
STA_UNSYNC == 64
STA_NANO == 8192

EPERM == 1
EACCES == 13
EFAULT == 14
EBUSY == 16
ENODEV == 19
EINVAL == 22
EOPNOTSUPP == 95

\* the status bits of the model, and those the kernel lets no caller write
StatusBits == {STA_PLL, STA_PPSFREQ, STA_PPSTIME, STA_FLL, STA_INS, STA_DEL,
               STA_UNSYNC, STA_NANO}
STA_RONLY == {STA_NANO}
LeapBits == {STA_INS, STA_DEL, STA_UNSYNC}

CLOCK_REALTIME == 0
CLOCK_TAI == 11

NANOS_PER_SEC == 1000000000
I32_MAX == 2147483647
\* u32::MAX / 1000 and i32::MAX / 1000: the largest factors checked_mul(1000) accepts
U32_MAX_DIV_1000 == 4294967
I32_MAX_DIV_1000 == 2147483

FREQ_MAX == 32768000

\* 2^28 and 2^29: the bits of an i32 that a shift by three keeps
TWO_28 == 268435456
TWO_29 == 536870912

----------------------------------------------------------------------------
(* Values *)

Ok == "Ok"
Panic == "Panic"
ErrorKinds == {"NoPermission", "NoAccess", "Invalid", "NoDevice", "NotSupported"}
\* a Result is "Ok", the name of an Error kind, or "Panic" (the process aborted)
Err(e) == e
IsErr(r) == r \in ErrorKinds

LeapIndicators == {"NoWarning", "Leap61", "Leap59", "Unknown"}

----------------------------------------------------------------------------
(* Error taxonomy *)

\* convert_errno: the five classified error numbers; any other number hits
\* unreachable!() and aborts the process (Panic), it yields no Error value.
convert_errno_coercing(n) ==
    CASE n = EINVAL -> Err("Invalid")
      [] n = ENODEV -> Err("NoDevice")
      [] n = EOPNOTSUPP -> Err("NotSupported")
      [] n = EPERM -> Err("NoPermission")
      [] n = EACCES -> Err("NoAccess")
      [] OTHER -> Err("Invalid")

convert_errno(n) ==
    CASE n = EINVAL -> Err("Invalid")
      [] n = ENODEV -> Err("NoDevice")
      [] n = EOPNOTSUPP -> Err("NotSupported")
      [] n = EPERM -> Err("NoPermission")
      [] n = EACCES -> Err("NoAccess")
      [] n = EFAULT -> Panic
      [] OTHER -> Panic

\* cerr and the `== -1` tests of clock_adjtime / ntp_adjtime: a syscall
\* outcome is its errno, 0 standing for a return value other than -1.
cerr(n) == IF n # 0 THEN convert_errno(n) ELSE Ok

\* Invalid absorbed as well
ignore_not_supported_invalid(res) ==
    IF res \in {Err("NotSupported"), Err("Invalid")} THEN Ok ELSE res

ignore_not_supported(res) ==
    IF res = Err("NotSupported") THEN Ok ELSE res

\* NoAccess given the number of NoPermission
into_raw_os_error_merging(e) ==
    CASE e = "NoPermission" -> EPERM
      [] e = "NoAccess" -> EPERM
      [] e = "Invalid" -> EINVAL
      [] e = "NoDevice" -> ENODEV
      [] e = "NotSupported" -> EOPNOTSUPP

into_raw_os_error(e) ==
    CASE e = "NoPermission" -> EPERM
      [] e = "NoAccess" -> EACCES
      [] e = "Invalid" -> EINVAL
      [] e = "NoDevice" -> ENODEV
      [] e = "NotSupported" -> EOPNOTSUPP

as_status_bit(leap) ==
    CASE leap = "NoWarning" -> {}
      [] leap = "Leap61" -> {STA_INS}
      [] leap = "Leap59" -> {STA_DEL}
      [] leap = "Unknown" -> {STA_UNSYNC}

----------------------------------------------------------------------------
(* Clock identity *)

\* !x of an i32
not_i32(x) == -x - 1

\* x << 3 of an i32: the low 29 bits move up, bit 28 becomes the sign
shl3_i32(x) ==
    LET low == x % TWO_29
    IN  IF low >= TWO_28 THEN (low - TWO_29) * 8 ELSE low * 8

\* x | 3 of an i32
or3_i32(x) == x - (x % 4) + 3

\* the complement left out
safe_from_raw_fd_plain(fd) == UnixClock(or3_i32(shl3_i32(fd)), fd)

safe_from_raw_fd(fd) == UnixClock(or3_i32(shl3_i32(not_i32(fd))), fd)

----------------------------------------------------------------------------
(* Time representation *)

\* i32::checked_mul(1000).unwrap_or_default()
checked_mul_i32(n) ==
    IF n > I32_MAX_DIV_1000 \/ n < -I32_MAX_DIV_1000 THEN 0 ELSE n * 1000

\* u32::checked_mul(1000).unwrap_or_default()
checked_mul_u32(n) ==
    IF n > U32_MAX_DIV_1000 THEN 0 ELSE n * 1000

\* first loop of current_time_timespec: while nanos > 1_000_000_000
RECURSIVE carry_up(_, _)
carry_up(seconds, nanos) ==
    IF nanos > NANOS_PER_SEC
    THEN carry_up(seconds + 1, nanos - NANOS_PER_SEC)
    ELSE <<seconds, nanos>>

\* second loop of current_time_timespec: while nanos < 0
RECURSIVE carry_down(_, _)
carry_down(seconds, nanos) ==
    IF nanos < 0
    THEN carry_down(seconds - 1, nanos + NANOS_PER_SEC)
    ELSE <<seconds, nanos>>

\* The raw tv_nsec values of the model lie within i32, where `as i32` keeps
\* the value; the seconds of the model are far from the wrap-around.
current_time_timespec(timespec, precision) ==
    LET nanos0 == timespec.tv_nsec
        nanos1 == IF precision = "Nano" THEN nanos0 ELSE checked_mul_i32(nanos0)
        up == carry_up(timespec.tv_sec, nanos1)
        down == carry_down(up[1], up[2])
    IN  Timestamp(down[1], down[2])

\* The raw tv_usec values of the model are non-negative and within i32, where
\* `as u32` keeps the value.
current_time_timeval(timeval, precision) ==
    Timestamp(timeval.tv_sec,
              IF precision = "Nano" THEN timeval.tv_usec
              ELSE checked_mul_u32(timeval.tv_usec))

\* the loop of UnixClock::clock_settime on its own copy of the argument:
\* while tv_nsec > 1_000_000_000; what it leaves is what the kernel is handed
RECURSIVE clock_settime(_)
clock_settime(timespec) ==
    IF timespec.tv_nsec > NANOS_PER_SEC
    THEN clock_settime([tv_sec |-> timespec.tv_sec + 1,
                        tv_nsec |-> timespec.tv_nsec - NANOS_PER_SEC])
    ELSE timespec

\* step_clock_by_timespec: got is what clock_gettime gave, e1 its errno, e2 the
\* errno of the clock_settime call.  The sum stays in the local timespec,
\* clock_settime normalises a copy (val, what the kernel is handed), and the
\* Timestamp returned is current_time_timespec of the local sum.
step_clock_by_timespec(got, offset, e1, e2) ==
    LET timespec == [tv_sec |-> got.tv_sec + offset.seconds,
                     tv_nsec |-> got.tv_nsec + offset.nanos]
    IN  IF cerr(e1) # Ok
        THEN [raw |-> EMPTY_TIMESPEC, calls |-> <<Call("clock_gettime", e1)>>,
              res |-> cerr(e1), ts |-> NoTs, val |-> EMPTY_TIMESPEC]
        ELSE [raw |-> got,
              calls |-> <<Call("clock_gettime", 0), Call("clock_settime", e2)>>,
              res |-> cerr(e2),
              ts |-> IF cerr(e2) = Ok THEN current_time_timespec(timespec, "Nano")
                     ELSE NoTs,
              val |-> clock_settime(timespec)]

----------------------------------------------------------------------------
(* Adjustment requests *)

Abs(x) == IF x < 0 THEN -x ELSE x
Sign(x) == IF x < 0 THEN -1 ELSE IF x > 0 THEN 1 ELSE 0

\* f64::round of units/4: nearest integer, halves away from zero
round_quarters(q) == Sign(q) * ((Abs(q) + 2) \div 4)

\* (ppm * 65536.0).round() as c_long: the cast is saturating, NaN gives 0,
\* the infinities give c_long::MIN / c_long::MAX, written [sat |-> -1 / 1].
round_as_long(ppm) ==
    CASE ppm.kind = "nan" -> Long(0)
      [] ppm.kind = "inf" -> [sat |-> ppm.q, v |-> 0]
      [] OTHER -> Long(round_quarters(ppm.q))

\* c_long::clamp(min, max)
clamp(x, min, max) ==
    IF x.sat = 1 THEN max
    ELSE IF x.sat = -1 THEN min
    ELSE IF x.v < min THEN min
    ELSE IF x.v > max THEN max
    ELSE x.v

\* the clamp one too wide on both sides
set_frequency_timex_wide(ppm) ==
    [EMPTY_TIMEX EXCEPT
        !.modes = {MOD_FREQUENCY},
        !.freq = clamp(round_as_long(ppm), -FREQ_MAX, FREQ_MAX)]

\* the clamp left out
set_frequency_timex_unclamped(ppm) ==
    [EMPTY_TIMEX EXCEPT
        !.modes = {MOD_FREQUENCY},
        !.freq = IF ppm.kind = "finite" THEN round_quarters(ppm.q) ELSE 0]

\* the product cast to c_long without .round(): the fraction is cut off
set_frequency_timex_truncating(ppm) ==
    [EMPTY_TIMEX EXCEPT
        !.modes = {MOD_FREQUENCY},
        !.freq = IF ppm.kind = "finite"
                 THEN clamp(Long(Sign(ppm.q) * (Abs(ppm.q) \div 4)), -FREQ_MAX + 1, FREQ_MAX - 1)
                 ELSE clamp(round_as_long(ppm), -FREQ_MAX + 1, FREQ_MAX - 1)]

set_frequency_timex(ppm) ==
    [EMPTY_TIMEX EXCEPT
        !.modes = {MOD_FREQUENCY},
        !.freq = clamp(round_as_long(ppm), -FREQ_MAX + 1, FREQ_MAX - 1)]

\* The frequency composition with the multiplier 1.0.  The field is turned
\* into ppm (field / 65536, exact: 4 * field units of 2^-18 ppm), the ppm into
\* the rate multiplier 1 - ppm/1e6, that is multiplied by 1.0 and turned back
\* into ppm, -(m - 1) * 1e6.  The subtraction from 1 and the product with 1e6
\* each round to a double, which moves the ppm by some 1e-10 ppm at most; err
\* is that error, in steps of a whole unit of 2^-18 ppm, so err \in -1..1
\* covers every value the arithmetic can give, and more.
compose_ppm(field, err) == Finite(4 * field + err)

\* compose(current_record_frequency, 1.0): the ppm handed to the encoder
compose(field, err) == set_frequency_timex(compose_ppm(field, err))

\* Duration::as_nanos() as c_long: the cast of the u128 count keeps its low 64
\* bits, which drops the laps (the ns of the model are far below 2^63)
as_nanos_as_long(d) == d.ns

error_estimate_timex(est_error, max_error) ==
    [EMPTY_TIMEX EXCEPT
        !.modes = {MOD_ESTERROR, MOD_MAXERROR},
        !.esterror = as_nanos_as_long(est_error) \div 1000,
        !.maxerror = as_nanos_as_long(max_error) \div 1000]

\* the sub-second field scaled to microseconds
step_clock_timex_micro(offset) ==
    [EMPTY_TIMEX EXCEPT
        !.modes = {ADJ_SETOFFSET, ADJ_NANO},
        !.time = [tv_sec |-> offset.seconds, tv_usec |-> offset.nanos \div 1000]]

step_clock_timex(offset) ==
    [EMPTY_TIMEX EXCEPT
        !.modes = {ADJ_SETOFFSET, ADJ_NANO},
        !.time = [tv_sec |-> offset.seconds, tv_usec |-> offset.nanos]]

----------------------------------------------------------------------------
(* The kernel clock behind the adjustment call *)

Errnos == {EPERM, EACCES, EFAULT, EBUSY, ENODEV, EINVAL, EOPNOTSUPP}
Outcomes == {0} \cup Errnos

\* a kernel that merges a status write into the word it holds: it takes the
\* leap bits from the request and clears what the request clears of the word
\* the caller read, and keeps every other bit as it is now
KernelApply_merging(k, req) ==
    [freq |-> IF MOD_FREQUENCY \in req.modes THEN req.freq ELSE k.freq,
     maxerror |-> IF MOD_MAXERROR \in req.modes THEN req.maxerror ELSE k.maxerror,
     esterror |-> IF MOD_ESTERROR \in req.modes THEN req.esterror ELSE k.esterror,
     status |->
        LET written == IF MOD_STATUS \in req.modes
                       THEN (k.status \ LeapBits) \cup (req.status \cap LeapBits)
                       ELSE k.status
        IN  IF ADJ_NANO \in req.modes THEN written \cup {STA_NANO} ELSE written,
     tai |-> IF ADJ_TAI \in req.modes THEN req.constant ELSE k.tai,
     stepped |-> IF ADJ_SETOFFSET \in req.modes THEN k.stepped + 1 ELSE k.stepped]

\* the kernel state after a successful adjustment call with request req
KernelApply(k, req) ==
    [freq |-> IF MOD_FREQUENCY \in req.modes THEN req.freq ELSE k.freq,
     maxerror |-> IF MOD_MAXERROR \in req.modes THEN req.maxerror ELSE k.maxerror,
     esterror |-> IF MOD_ESTERROR \in req.modes THEN req.esterror ELSE k.esterror,
     status |->
        LET written == IF MOD_STATUS \in req.modes
                       THEN (k.status \cap STA_RONLY) \cup (req.status \ STA_RONLY)
                       ELSE k.status
        IN  IF ADJ_NANO \in req.modes THEN written \cup {STA_NANO} ELSE written,
     tai |-> IF ADJ_TAI \in req.modes THEN req.constant ELSE k.tai,
     stepped |-> IF ADJ_SETOFFSET \in req.modes THEN k.stepped + 1 ELSE k.stepped]

\* the record as the kernel hands it back: the clock state and a time field
KernelReply(k, req, time) ==
    [req EXCEPT !.status = k.status, !.freq = k.freq, !.esterror = k.esterror,
                !.maxerror = k.maxerror, !.tai = k.tai, !.time = time]

\* UnixClock::adjtime dispatches on the clock identity
adjtime_name == IF clock = "CLOCK_REALTIME" THEN "ntp_adjtime" ELSE "clock_adjtime"

----------------------------------------------------------------------------
(* Inputs of the operations *)

Ppm(n) == Finite(n * 262144)

PpmArgs == {Ppm(1000), Ppm(-1000), Ppm(100)}
OffsetArgs == {[seconds |-> 1, nanos |-> 200000000], [seconds |-> -MaxSec, nanos |-> 0]}
ErrorArgs == {<<Duration(0, 500000000), Duration(0, 1200000999)>>}
TaiArgs == 0..MaxTai

\* what the kernel may leave in the time field of a reply
TimevalInputs == [tv_sec : {0, MaxSec}, tv_usec : {0, 999999, 1000000}]
\* what a direct clock read may give
TimespecInputs == [tv_sec : {MaxSec}, tv_nsec : {0, 999999999, 1000000000}]

\* status words the kernel may hold when the program starts
InitStatus == {{}, {STA_INS}, {STA_PLL, STA_PPSFREQ, STA_PPSTIME, STA_FLL, STA_UNSYNC, STA_NANO}}

\* the status bits another process flips
ExtBits == {STA_PLL, STA_INS}

\* within system_offset: the outcome of the correlation ioctl (its errno is
\* not looked at), the samples it fills in, and what the adjustment calls and
\* the direct reads of the three now() of the fallback give
IoctlOutcomes == {0, EOPNOTSUPP}
PtpSamples == {ptp_clock_time(0, 999999999), ptp_clock_time(MaxSec, 0)}
SysAdj == {[time |-> NoTime, errno |-> EOPNOTSUPP], [time |-> NoTime, errno |-> 0],
           [time |-> [tv_sec |-> MaxSec, tv_usec |-> 999999], errno |-> 0]}
SysReads == {[errno |-> ENODEV, raw |-> EMPTY_TIMESPEC],
             [errno |-> 0, raw |-> [tv_sec |-> 0, tv_nsec |-> 999999999]]}
\* the system clock behind CLOCK_TAI: its status word and its TAI offset
SysStatus == {{STA_NANO}}
SysTai == {[tai |-> t, errno |-> 0] : t \in TaiArgs}
              \cup {[tai |-> 0, errno |-> e] : e \in {EOPNOTSUPP, EFAULT}}

----------------------------------------------------------------------------
(* The operations of UnixClock *)

Event(op, a, req, reply, raw, calls, res, ts, val, rc) ==
    [arg |-> a, raced |-> rc, op |-> op, req |-> req, reply |-> reply, raw |-> raw,
     calls |-> calls, res |-> res, ts |-> ts, val |-> val]

Idle == pc = "idle"

\* the test of extract_current_time: decode the reply's own time field
has_embedded_time(tx) == tx.time.tv_sec # 0 /\ tx.time.tv_usec # 0

\* the direct read's failure dropped instead of returned
extract_current_time_masking(tx, e, raw) ==
    IF has_embedded_time(tx)
    THEN [raw |-> EMPTY_TIMESPEC, calls |-> <<>>, res |-> Ok,
          ts |-> current_time_timeval(tx.time,
                    IF STA_NANO \in tx.status THEN "Nano" ELSE "Micro")]
    ELSE [raw |-> IF cerr(e) = Ok THEN raw ELSE EMPTY_TIMESPEC,
          calls |-> <<Call("clock_gettime", e)>>, res |-> Ok,
          ts |-> current_time_timespec(IF cerr(e) = Ok THEN raw ELSE EMPTY_TIMESPEC,
                                       "Nano")]

\* the reply's time field decoded whatever it holds, no direct read
extract_current_time_embedded_only(tx, e, raw) ==
    [raw |-> EMPTY_TIMESPEC, calls |-> <<>>, res |-> Ok,
     ts |-> current_time_timeval(tx.time,
               IF STA_NANO \in tx.status THEN "Nano" ELSE "Micro")]

\* extract_current_time, e and raw being the outcome of its direct read
extract_current_time(tx, e, raw) ==
    IF has_embedded_time(tx)
    THEN [raw |-> EMPTY_TIMESPEC, calls |-> <<>>, res |-> Ok,
          ts |-> current_time_timeval(tx.time,
                    IF STA_NANO \in tx.status THEN "Nano" ELSE "Micro")]
    ELSE IF cerr(e) # Ok
    THEN [raw |-> EMPTY_TIMESPEC, calls |-> <<Call("clock_gettime", e)>>,
          res |-> cerr(e), ts |-> NoTs]
    ELSE [raw |-> raw, calls |-> <<Call("clock_gettime", 0)>>, res |-> Ok,
          ts |-> current_time_timespec(raw, "Nano")]

\* an operation begins only while the model's budget of operations lasts
Begin ==
    /\ pc = "idle"
    /\ ops < MaxOps
    /\ ops' = ops + 1

Finish(ev) ==
    /\ last' = ev
    /\ UNCHANGED <<clock, pc, arg, timex, raced>>

\* outcomes of an adjustment call: an errno, or success with a time field
AdjOutcomes ==
    {[time |-> NoTime, errno |-> e] : e \in Errnos}
        \cup {[time |-> t, errno |-> 0] : t \in TimevalInputs}

\* A clock device's driver acts on the request and fills in neither the time
\* nor the status of the record: the caller finds the record as it sent it.
\* (The time field of a step request is the offset, so only there does the
\* outcome differ from a reply with the time left zero.)
AsSent(req) ==
    IF clock # "CLOCK_REALTIME" /\ req.time # NoTime
    THEN {[time |-> req.time, errno |-> 0]}
    ELSE {}

\* outcomes of a direct read (clock_gettime, clock_getres)
ReadOutcomes ==
    {[errno |-> e, raw |-> EMPTY_TIMESPEC] : e \in Errnos}
        \cup {[errno |-> 0, raw |-> r] : r \in TimespecInputs}

NoRead == {[errno |-> 0, raw |-> EMPTY_TIMESPEC]}

\* a query that asks for the status word to be written, as a zero word
query_timex_writing == [EMPTY_TIMEX EXCEPT !.modes = {MOD_STATUS}]

\* the record of a query: `let mut timex = EMPTY_TIMEX;` of now, get_frequency,
\* get_tai and of the read of update_timex and disable_kernel_ntp_algorithm
query_timex == EMPTY_TIMEX

\* the kernel state after a query call that gave errno e
Queried(k, e) == IF cerr(e) = Ok THEN KernelApply(k, query_timex) ELSE k

\* now() on the clock whose adjustment call is adj and whose kernel state is
\* k: a query; when the adjustment call fails, a direct read instead.  a is
\* the outcome of the adjustment call, d that of the direct read.
now_call(adj, k, a, d) ==
    LET reply == KernelReply(Queried(k, 0), query_timex, a.time)
        x == extract_current_time(reply, d.errno, d.raw)
    IN  IF cerr(a.errno) = Panic
        THEN [reply |-> EMPTY_TIMEX, raw |-> EMPTY_TIMESPEC,
              calls |-> <<Call(adj, a.errno)>>, res |-> Panic, ts |-> NoTs]
        ELSE IF cerr(a.errno) # Ok
        THEN [reply |-> EMPTY_TIMEX, raw |-> d.raw,
              calls |-> <<Call(adj, a.errno), Call("clock_gettime", d.errno)>>,
              res |-> cerr(d.errno),
              ts |-> IF cerr(d.errno) = Ok
                     THEN current_time_timespec(d.raw, "Nano") ELSE NoTs]
        ELSE [reply |-> reply, raw |-> x.raw, calls |-> <<Call(adj, 0)>> \o x.calls,
              res |-> x.res, ts |-> x.ts]

\* now() issues a direct read: its adjustment call failed with an error kind,
\* or succeeded with no time to decode in the reply
now_reads(k, a) ==
    \/ cerr(a.errno) \in ErrorKinds
    \/ cerr(a.errno) = Ok /\ ~has_embedded_time(KernelReply(k, query_timex, a.time))

Now ==
    \E a \in AdjOutcomes :
        \E d \in IF now_reads(kernel, a) THEN ReadOutcomes ELSE NoRead :
            LET n == now_call(adjtime_name, kernel, a, d)
            IN  /\ Begin
                /\ kernel' = Queried(kernel, a.errno)
                /\ Finish(Event("now", "none", query_timex, n.reply, n.raw, n.calls,
                                n.res, n.ts, 0, FALSE))

Resolution ==
    \E d \in ReadOutcomes :
        /\ Begin
        /\ kernel' = kernel
        /\ Finish(Event("resolution", "none", EMPTY_TIMEX, EMPTY_TIMEX, d.raw,
                        <<Call("clock_getres", d.errno)>>, cerr(d.errno),
                        IF cerr(d.errno) = Ok THEN current_time_timespec(d.raw, "Nano")
                        ELSE NoTs,
                        0, FALSE))

\* the value returned, timex.freq / 65536.0, is kept as the field it divides
GetFrequency ==
    \E e \in Outcomes :
        LET reply == KernelReply(Queried(kernel, 0), query_timex, NoTime)
        IN  /\ Begin
            /\ kernel' = Queried(kernel, e)
            /\ Finish(Event("get_frequency", "none", query_timex,
                            IF cerr(e) = Ok THEN reply ELSE EMPTY_TIMEX, EMPTY_TIMESPEC,
                            <<Call(adjtime_name, e)>>, cerr(e), NoTs,
                            IF cerr(e) = Ok THEN reply.freq ELSE 0, FALSE))

\* set_frequency and step_clock_by_timex: adjust, then extract_current_time
AdjustAndExtract(op, a, req) ==
    \E o \in AdjOutcomes \cup AsSent(req) :
        LET k2 == KernelApply(kernel, req)
            reply == IF o \in AsSent(req) THEN req ELSE KernelReply(k2, req, o.time)
            direct == cerr(o.errno) = Ok /\ ~has_embedded_time(reply)
        IN  \E d \in IF direct THEN ReadOutcomes ELSE NoRead :
            LET x == extract_current_time(reply, d.errno, d.raw)
            IN  /\ Begin
                /\ IF cerr(o.errno) # Ok
                   THEN /\ kernel' = kernel
                        /\ Finish(Event(op, a, req, EMPTY_TIMEX, EMPTY_TIMESPEC,
                                        <<Call(adjtime_name, o.errno)>>, cerr(o.errno), NoTs,
                                        0, FALSE))
                   ELSE /\ kernel' = k2
                        /\ Finish(Event(op, a, req, reply, x.raw,
                                        <<Call(adjtime_name, 0)>> \o x.calls, x.res, x.ts,
                                        0, FALSE))

SetFrequency ==
    \E ppm \in PpmArgs : AdjustAndExtract("set_frequency", ppm, set_frequency_timex(ppm))

StepClock ==
    \E offset \in OffsetArgs :
        AdjustAndExtract("step_clock", offset, step_clock_timex(offset))

ErrorEstimateUpdate ==
    \E d \in ErrorArgs, e \in Outcomes :
        LET req == error_estimate_timex(d[1], d[2])
        IN  /\ Begin
            /\ kernel' = IF cerr(e) = Ok THEN KernelApply(kernel, req) ELSE kernel
            /\ Finish(Event("error_estimate_update", d, req, EMPTY_TIMEX, EMPTY_TIMESPEC,
                            <<Call(adjtime_name, e)>>,
                            ignore_not_supported(cerr(e)), NoTs, 0, FALSE))

\* set_tai calls clock_adjtime whatever the clock is
SetTai ==
    \E t \in TaiArgs, e \in Outcomes :
        LET req == [EMPTY_TIMEX EXCEPT !.modes = {ADJ_TAI}, !.constant = t]
        IN  /\ Begin
            /\ kernel' = IF cerr(e) = Ok THEN KernelApply(kernel, req) ELSE kernel
            /\ Finish(Event("set_tai", t, req, EMPTY_TIMEX, EMPTY_TIMESPEC,
                            <<Call("clock_adjtime", e)>>, cerr(e), NoTs, 0, FALSE))

\* the failure of the query returned instead of 0
GetTai_propagating ==
    \E e \in Outcomes :
        LET reply == KernelReply(Queried(kernel, 0), query_timex, NoTime)
        IN  /\ Begin
            /\ kernel' = Queried(kernel, e)
            /\ Finish(Event("get_tai", "none", query_timex,
                            IF cerr(e) = Ok THEN reply ELSE EMPTY_TIMEX, EMPTY_TIMESPEC,
                            <<Call("clock_adjtime", e)>>,
                            cerr(e), NoTs,
                            IF cerr(e) = Ok THEN reply.tai ELSE 0, FALSE))

GetTai ==
    \E e \in Outcomes :
        LET reply == KernelReply(Queried(kernel, 0), query_timex, NoTime)
        IN  /\ Begin
            /\ kernel' = Queried(kernel, e)
            /\ Finish(Event("get_tai", "none", query_timex,
                            IF cerr(e) = Ok THEN reply ELSE EMPTY_TIMEX, EMPTY_TIMESPEC,
                            <<Call("clock_adjtime", e)>>,
                            IF cerr(e) = Panic THEN Panic ELSE Ok, NoTs,
                            IF cerr(e) = Ok THEN reply.tai ELSE 0, FALSE))

\* the status word replaced by the leap bit
set_leap_status_replacing(status, leap_status) == as_status_bit(leap_status)

\* the closure of set_leap_seconds, applied to the status word that was read
set_leap_status(status, leap_status) == status \cup as_status_bit(leap_status)

\* the pulse-per-second bits left as they are
disable_status_loops_only(status) == status \ {STA_PLL, STA_FLL}

\* the status word disable_kernel_ntp_algorithm writes back
disable_status(status) == status \ {STA_PLL, STA_FLL, STA_PPSTIME, STA_PPSFREQ}

\* the read's `?` left out: the write follows a failed read all the same,
\* computed from the record the failed call left untouched
ReadStatus_unchecked(op, a) ==
    \E e \in Outcomes :
        LET got == IF cerr(e) = Ok
                   THEN KernelReply(Queried(kernel, 0), query_timex, NoTime)
                   ELSE query_timex
        IN  /\ Begin
            /\ kernel' = Queried(kernel, e)
            /\ pc' = op
            /\ arg' = a
            /\ timex' = got
            /\ raced' = FALSE
            /\ last' = Event(op, a, query_timex, got, EMPTY_TIMESPEC,
                             <<Call(adjtime_name, e)>>, "pending", NoTs, 0, FALSE)
            /\ UNCHANGED clock

\* First syscall of update_timex and of disable_kernel_ntp_algorithm: the
\* read.  The kernel clock is shared with other processes, so the write is a
\* later step; last holds the operation in progress until it returns.
ReadStatus(op, a) ==
    \E e \in Outcomes :
        LET got == KernelReply(Queried(kernel, 0), query_timex, NoTime)
        IN  /\ Begin
            /\ kernel' = Queried(kernel, e)
            /\ IF cerr(e) # Ok
               THEN Finish(Event(op, a, query_timex, EMPTY_TIMEX, EMPTY_TIMESPEC,
                                 <<Call(adjtime_name, e)>>, cerr(e), NoTs, 0, FALSE))
               ELSE /\ pc' = op
                    /\ arg' = a
                    /\ timex' = got
                    /\ raced' = FALSE
                    /\ last' = Event(op, a, query_timex, got, EMPTY_TIMESPEC,
                                     <<Call(adjtime_name, 0)>>, "pending", NoTs, 0, FALSE)
                    /\ UNCHANGED clock

\* Second syscall: the write of the record computed from the one read
WriteStatus(op, newtx, e, res) ==
    /\ pc = op
    /\ kernel' = IF cerr(e) = Ok THEN KernelApply(kernel, newtx) ELSE kernel
    /\ last' = Event(op, arg, newtx, timex, EMPTY_TIMESPEC,
                     <<Call(adjtime_name, 0), Call(adjtime_name, e)>>, res, NoTs, 0, raced)
    /\ pc' = "idle"
    /\ arg' = "none"
    /\ timex' = EMPTY_TIMEX
    /\ raced' = FALSE
    /\ UNCHANGED <<clock, ops>>

SetLeapSecondsRead ==
    \E leap_status \in LeapIndicators : ReadStatus("set_leap_seconds", leap_status)

SetLeapSecondsWrite ==
    \E e \in Outcomes :
        WriteStatus("set_leap_seconds",
                    [timex EXCEPT !.modes = {MOD_STATUS},
                                  !.status = set_leap_status(timex.status, arg)],
                    e, cerr(e))

DisableKernelNtpAlgorithmRead == ReadStatus("disable_kernel_ntp_algorithm", "none")

DisableKernelNtpAlgorithmWrite ==
    \E e \in Outcomes :
        WriteStatus("disable_kernel_ntp_algorithm",
                    [timex EXCEPT !.modes = {MOD_STATUS},
                                  !.status = disable_status(timex.status)],
                    e, ignore_not_supported(cerr(e)))

\* the instant the kernel put into the time field of a reply, and the one a
\* direct read gave
GivenByReply(reply) ==
    IF reply.time = NoTime THEN NoTs
    ELSE Timestamp(reply.time.tv_sec,
                   IF STA_NANO \in reply.status THEN reply.time.tv_usec
                   ELSE reply.time.tv_usec * 1000)

GivenByRead(d) ==
    IF d.errno = 0 THEN Timestamp(d.raw.tv_sec, d.raw.tv_nsec) ELSE NoTs

\* the syscalls of one now() of system_offset, each with its clock
calls_on(clk, n, d) ==
    [i \in DOMAIN n.calls |->
        CallOn(n.calls[i].call, n.calls[i].errno, clk,
               IF i = 1 THEN GivenByReply(n.reply) ELSE GivenByRead(d))]

\* the triple the fallback returned with its ends exchanged
offset_triple_exchanged(t1, tp, t2) == <<t2, tp, t1>>

\* Ok((t1?, tp?, t2?))
offset_triple(t1, tp, t2) == <<t1, tp, t2>>

\* the first failure among the three results, in the order of the `?`
first_failure(r1, rp, r2) ==
    IF r1 # Ok THEN r1 ELSE IF rp # Ok THEN rp ELSE r2

\* system_offset.  CLOCK_REALTIME holds no device handle; a hardware clock
\* asks the correlation ioctl and, when that fails, brackets one read of
\* itself between two reads of CLOCK_TAI.  The adjustment calls of the model's
\* fallback fail with an error kind only.
SystemOffset ==
    \/ /\ clock = "CLOCK_REALTIME"
       /\ Begin
       /\ kernel' = kernel
       /\ Finish(Event("system_offset", "none", EMPTY_TIMEX, EMPTY_TIMEX, EMPTY_TIMESPEC,
                       <<>>, Err("Invalid"), NoTs, <<>>, FALSE))
    \/ /\ clock # "CLOCK_REALTIME"
       /\ \E s0 \in PtpSamples, s1 \in PtpSamples, s2 \in PtpSamples, g \in SysTai :
            LET tai_offset == IF cerr(g.errno) = Ok THEN g.tai ELSE 0
            IN  /\ Begin
                /\ kernel' = kernel
                /\ Finish(Event("system_offset", <<s0, s1, s2>>, EMPTY_TIMEX, EMPTY_TIMEX,
                                EMPTY_TIMESPEC,
                                <<CallOn("ioctl", 0, clock, NoTs),
                                  CallOn("clock_adjtime", g.errno, "CLOCK_TAI", NoTs)>>,
                                IF cerr(g.errno) = Panic THEN Panic ELSE Ok, NoTs,
                                IF cerr(g.errno) = Panic THEN <<>>
                                ELSE <<Timestamp(s0.sec + tai_offset, s0.nsec),
                                       Timestamp(s1.sec, s1.nsec),
                                       Timestamp(s2.sec + tai_offset, s2.nsec)>>,
                                FALSE))
    \/ /\ clock # "CLOCK_REALTIME"
       /\ \E e0 \in IoctlOutcomes \ {0}, sys \in SysStatus,
             a1 \in SysAdj, ap \in SysAdj, a2 \in SysAdj :
            \E d1 \in IF now_reads(KernelWith(sys), a1) THEN SysReads ELSE NoRead,
               dp \in IF now_reads(kernel, ap) THEN SysReads ELSE NoRead,
               d2 \in IF now_reads(KernelWith(sys), a2) THEN SysReads ELSE NoRead :
                LET t1 == now_call("clock_adjtime", KernelWith(sys), a1, d1)
                    tp == now_call(adjtime_name, kernel, ap, dp)
                    t2 == now_call("clock_adjtime", KernelWith(sys), a2, d2)
                    res == first_failure(t1.res, tp.res, t2.res)
                IN  /\ Begin
                    /\ kernel' = kernel
                    /\ Finish(Event("system_offset", "none", EMPTY_TIMEX, EMPTY_TIMEX,
                                    EMPTY_TIMESPEC,
                                    <<CallOn("ioctl", e0, clock, NoTs)>>
                                        \o calls_on("CLOCK_TAI", t1, d1)
                                        \o calls_on(clock, tp, dp)
                                        \o calls_on("CLOCK_TAI", t2, d2),
                                    res, NoTs,
                                    IF res = Ok THEN offset_triple(t1.ts, tp.ts, t2.ts)
                                    ELSE <<>>,
                                    FALSE))

\* Another process flips a status bit of the shared kernel clock between the
\* read and the write of an operation in progress.  (A write between two
\* operations only gives the next one another status word to start from.)
ExternalWrite ==
    \E b \in ExtBits :
        /\ pc # "idle"
        /\ ~raced
        /\ kernel' = [kernel EXCEPT !.status =
                         IF b \in @ THEN @ \ {b} ELSE @ \cup {b}]
        /\ raced' = TRUE
        /\ UNCHANGED <<clock, ops, pc, arg, timex, last>>

----------------------------------------------------------------------------
(* The steering process and the kernel clock *)

\* the system realtime clock and a hardware clock opened from a device
Clocks == {"CLOCK_REALTIME", "ptp"}

\* the kernel clock when the program starts: one of the status words; the
\* clock with its control loops running also holds a TAI offset
InitKernels ==
    {[KernelWith(s) EXCEPT !.tai = IF STA_PLL \in s THEN MaxTai ELSE 0] : s \in InitStatus}

Init ==
    /\ clock \in Clocks
    /\ kernel \in InitKernels
    /\ ops = 0
    /\ pc = "idle"
    /\ arg = "none"
    /\ timex = EMPTY_TIMEX
    /\ raced = FALSE
    /\ last = NoEvent

Next ==
    \/ Now
    \/ Resolution
    \/ GetFrequency
    \/ SetFrequency
    \/ StepClock
    \/ ErrorEstimateUpdate
    \/ SetTai
    \/ GetTai
    \/ SystemOffset
    \/ SetLeapSecondsRead
    \/ SetLeapSecondsWrite
    \/ DisableKernelNtpAlgorithmRead
    \/ DisableKernelNtpAlgorithmWrite
    \/ ExternalWrite

Spec == Init /\ [][Next]_vars

----------------------------------------------------------------------------
(* The pure functions, applied to inputs drawn from bounded sets *)

PpmCentres == {0, 4 * FREQ_MAX - 2, -(4 * FREQ_MAX - 2), Ppm(1000).q, Ppm(-1000).q,
               2000000000, -2000000000}

PpmInputs ==
    {Finite(c + d) : c \in PpmCentres, d \in -PpmWindow..PpmWindow}
        \cup {NaN, PosInf, NegInf}

NsecCentres == {-NANOS_PER_SEC, 0, NANOS_PER_SEC, 2 * NANOS_PER_SEC}

RawTimespecs ==
    [tv_sec : -1..MaxSec,
     tv_nsec : {c + d : c \in NsecCentres, d \in -NsecWindow..NsecWindow}]

UsecCentres == {NsecWindow, 1000000, U32_MAX_DIV_1000, NANOS_PER_SEC}

RawTimevals ==
    [tv_sec : -1..MaxSec,
     tv_usec : {c + d : c \in UsecCentres, d \in -NsecWindow..NsecWindow}
                  \ ((I32_MAX_DIV_1000 + 1)..U32_MAX_DIV_1000)]

\* 2^64 = 18_446_744_073_709_551 * 1000 + 616
TWO_64_MOD_1000 == 616

DurationCentres == {NsecWindow, 500000000, 1200000000, 1000 - TWO_64_MOD_1000}

DurationInputs ==
    {Duration(k, c + d) : k \in {0, 1}, c \in DurationCentres, d \in -NsecWindow..NsecWindow}

\* pairs of durations, one of them from the example 0.5 s, 1.2 s
DurationPairs ==
    {<<d, Duration(0, 1200000000)>> : d \in DurationInputs}
        \cup {<<Duration(0, 500000000), d>> : d \in DurationInputs}

OffsetInputs ==
    [seconds : -1..MaxSec,
     nanos : {c + d : c \in {NsecWindow, 200000000, NANOS_PER_SEC - 1 - NsecWindow},
                      d \in -NsecWindow..NsecWindow}]

\* frequency fields a record can hold within the clamp: none, 20 ppm, the ends
FieldCentres == {0, 1310720, FREQ_MAX - 1 - PpmWindow, -(FREQ_MAX - 1 - PpmWindow)}

FieldInputs == {c + d : c \in FieldCentres, d \in -PpmWindow..PpmWindow}

RoundingErrors == -1..1

\* sub-second counts: the ends of the range, and around the half second
SubSecondInputs ==
    {0, NANOS_PER_SEC - 1} \cup {500000000 + d : d \in -NsecWindow..NsecWindow}

\* what clock_gettime gives step_clock_by_timespec, and the offsets it is given
ClockReads == [tv_sec : {MaxSec}, tv_nsec : {0, 500000000, NANOS_PER_SEC - 1}]
StepOffsets == [seconds : {-1, 1}, nanos : SubSecondInputs]
SettimeOutcomes == {0, EPERM}

FdInputs ==
    {c + d : c \in {FdWindow, TWO_28, I32_MAX - FdWindow}, d \in -FdWindow..FdWindow}

Applied(ev) ==
    /\ last' = ev
    /\ UNCHANGED <<clock, kernel, ops, pc, arg, timex, raced>>

BuildFrequency ==
    \E ppm \in PpmInputs :
        Applied(Event("set_frequency_timex", ppm, set_frequency_timex(ppm), EMPTY_TIMEX,
                      EMPTY_TIMESPEC, <<>>, "none", NoTs, 0, FALSE))

NormalizeTimespec ==
    \E raw \in RawTimespecs :
        Applied(Event("current_time_timespec", "Nano", EMPTY_TIMEX, EMPTY_TIMEX,
                      raw, <<>>, "none", current_time_timespec(raw, "Nano"), 0, FALSE))

DecodeTimeval ==
    \E tv \in RawTimevals, precision \in {"Nano", "Micro"} :
        Applied(Event("current_time_timeval", precision, EMPTY_TIMEX,
                      [EMPTY_TIMEX EXCEPT !.time = tv], EMPTY_TIMESPEC, <<>>, "none",
                      current_time_timeval(tv, precision), 0, FALSE))

\* a syscall returned -1 with errno n: what cerr makes of it
ClassifyErrno ==
    \E n \in 1..MaxErrno :
        Applied(Event("convert_errno", n, EMPTY_TIMEX, EMPTY_TIMEX, EMPTY_TIMESPEC,
                      <<Call("syscall", n)>>, cerr(n), NoTs, 0, FALSE))

BuildErrorEstimate ==
    \E d \in DurationPairs :
        Applied(Event("error_estimate_timex", d,
                      error_estimate_timex(d[1], d[2]), EMPTY_TIMEX,
                      EMPTY_TIMESPEC, <<>>, "none", NoTs, 0, FALSE))

BuildStep ==
    \E offset \in OffsetInputs :
        Applied(Event("step_clock_timex", offset, step_clock_timex(offset), EMPTY_TIMEX,
                      EMPTY_TIMESPEC, <<>>, "none", NoTs, 0, FALSE))

IgnoreNotSupported ==
    \E res \in {Ok} \cup ErrorKinds :
        Applied(Event("ignore_not_supported", res, EMPTY_TIMEX, EMPTY_TIMEX,
                      EMPTY_TIMESPEC, <<>>, ignore_not_supported(res), NoTs, 0, FALSE))

OpenDevice ==
    \E fd \in FdInputs :
        Applied(Event("safe_from_raw_fd", fd, EMPTY_TIMEX, EMPTY_TIMEX, EMPTY_TIMESPEC,
                      <<>>, "none", NoTs, safe_from_raw_fd(fd), FALSE))

ComposeFrequency ==
    \E field \in FieldInputs, err \in RoundingErrors :
        Applied(Event("compose", field, compose(field, err), EMPTY_TIMEX,
                      EMPTY_TIMESPEC, <<>>, "none", NoTs, err, FALSE))

StepClockByTimespec ==
    \E got \in ClockReads, offset \in StepOffsets, e1 \in {0, ENODEV},
       e2 \in SettimeOutcomes :
        LET x == step_clock_by_timespec(got, offset, e1, e2)
        IN  /\ e1 # 0 => e2 = 0
            /\ Applied(Event("step_clock_by_timespec", offset, EMPTY_TIMEX, EMPTY_TIMEX,
                              x.raw, x.calls, x.res, x.ts, x.val, FALSE))

\* an Error turned into its OS error number, and that number classified
IntoRawOsError ==
    \E e \in ErrorKinds :
        Applied(Event("into_raw_os_error", e, EMPTY_TIMEX, EMPTY_TIMEX, EMPTY_TIMESPEC,
                      <<>>, convert_errno(into_raw_os_error(e)), NoTs,
                      into_raw_os_error(e), FALSE))

InitPure ==
    /\ clock = "CLOCK_REALTIME"
    /\ kernel = KernelWith({})
    /\ ops = 0
    /\ pc = "idle"
    /\ arg = "none"
    /\ timex = EMPTY_TIMEX
    /\ raced = FALSE
    /\ last = NoEvent

NextPure ==
    \/ BuildFrequency
    \/ ComposeFrequency
    \/ StepClockByTimespec
    \/ IntoRawOsError
    \/ NormalizeTimespec
    \/ DecodeTimeval
    \/ ClassifyErrno
    \/ BuildErrorEstimate
    \/ BuildStep
    \/ IgnoreNotSupported
    \/ OpenDevice

SpecPure == InitPure /\ [][NextPure]_vars

----------------------------------------------------------------------------
(* Properties *)

Classified == {EINVAL, ENODEV, EOPNOTSUPP, EPERM, EACCES}

\* the error kind the specification assigns to a classified error number
KindOf(n) ==
    CASE n = EINVAL -> "Invalid"
      [] n = ENODEV -> "NoDevice"
      [] n = EOPNOTSUPP -> "NotSupported"
      [] n = EPERM -> "NoPermission"
      [] n = EACCES -> "NoAccess"

\* the leap indicator a status word reads back as
ReadBackLeap(status) ==
    CASE status \cap LeapBits = {} -> "NoWarning"
      [] status \cap LeapBits = {STA_INS} -> "Leap61"
      [] status \cap LeapBits = {STA_DEL} -> "Leap59"
      [] status \cap LeapBits = {STA_UNSYNC} -> "Unknown"
      [] OTHER -> "ambiguous"

\* the step just taken is the return of an operation of the program
Returned == pc' = "idle" /\ (ops' # ops \/ pc # "idle")

\* C1: after a successful set_leap_seconds(x) the leap bits of the kernel
\* status read back as exactly x.
LeapIndicatorRoundTrip ==
    (last.op = "set_leap_seconds" /\ last.res = Ok)
        => ReadBackLeap(kernel.status) = last.arg

\* C2: for a raw nanosecond count outside [0, 1e9), current_time_timespec at
\* nanosecond precision returns nanos within [0, 999_999_999] and moves the
\* difference into seconds, so that the instant is unchanged.
TimespecNormalized ==
    (last.op = "current_time_timespec"
        /\ last.raw.tv_nsec \notin 0..(NANOS_PER_SEC - 1))
        => /\ last.ts.nanos \in 0..(NANOS_PER_SEC - 1)
           /\ (last.ts.seconds - last.raw.tv_sec) * NANOS_PER_SEC
                = last.raw.tv_nsec - last.ts.nanos

\* C3: every Timestamp a successful now, resolution, set_frequency or
\* step_clock returns has nanos within [0, 999_999_999].
ReturnedNanosInRange ==
    (last.op \in {"now", "resolution", "set_frequency", "step_clock"} /\ last.res = Ok)
        => last.ts.nanos \in 0..(NANOS_PER_SEC - 1)

\* n is the integer nearest to q / 4, a half rounding away from zero
IsRounded(n, q) ==
    \/ Abs(4 * n - q) < 2
    \/ Abs(4 * n - q) = 2 /\ Abs(4 * n) > Abs(q)

\* C4: set_frequency_timex builds a record with mode = frequency only whose
\* frequency field is round(ppm * 65536) clamped to [-32_767_999, 32_767_999];
\* inputs far outside the range, the infinities included, saturate to the
\* ends of that range, and a record is built for every input.
FrequencyFieldClamped ==
    last.op = "set_frequency_timex"
        => /\ last.req = [EMPTY_TIMEX EXCEPT !.modes = {MOD_FREQUENCY},
                                             !.freq = last.req.freq]
           /\ last.req.freq \in -32767999..32767999
           /\ last.arg.kind = "finite" =>
                \E n \in ((last.arg.q \div 4) - 1)..((last.arg.q \div 4) + 1) :
                    /\ IsRounded(n, last.arg.q)
                    /\ last.req.freq = IF n > 32767999 THEN 32767999
                                       ELSE IF n < -32767999 THEN -32767999
                                       ELSE n
           /\ last.arg = PosInf => last.req.freq = 32767999
           /\ last.arg = NegInf => last.req.freq = -32767999

\* a request far above the range was built and saturated
FrequencySaturated ==
    /\ last.op = "set_frequency_timex"
    /\ last.arg = Finite(2000000000)
    /\ last.req.freq = 32767999

\* C5 as stated: set_frequency with ppm = 1000 and ppm = -1000 sends the
\* frequency field 65_536_000 and -65_536_000.
ThousandPpmEncodedUnclamped ==
    (last.op = "set_frequency" /\ last.arg \in {Ppm(1000), Ppm(-1000)})
        => last.req.freq = IF last.arg = Ppm(1000) THEN 65536000 ELSE -65536000

\* C5 amended: set_frequency with ppm = 1000 and ppm = -1000, which lie
\* outside the clamp range, sends round(ppm * 65536) clamped to
\* [-32_767_999, 32_767_999], that is 32_767_999 and -32_767_999.
ThousandPpmEncodedClamped ==
    (last.op = "set_frequency" /\ last.arg \in {Ppm(1000), Ppm(-1000)})
        => last.req.freq = IF last.arg = Ppm(1000) THEN 32767999 ELSE -32767999

\* set_frequency(1000.0) succeeded and the kernel holds the clamped field
ThousandPpmApplied ==
    /\ last.op = "set_frequency"
    /\ last.arg = Ppm(1000)
    /\ last.res = Ok
    /\ kernel.freq = 32767999

\* C6: disable_kernel_ntp_algorithm and error_estimate_update return Ok when
\* any of their adjustment calls reports NotSupported, and return every other
\* error kind unchanged.
NotSupportedAbsorbed ==
    (last.op \in {"disable_kernel_ntp_algorithm", "error_estimate_update"}
        /\ last.res # "pending")
        => \A i \in DOMAIN last.calls :
              /\ last.calls[i].errno = EOPNOTSUPP => last.res = Ok
              /\ last.calls[i].errno \in Classified \ {EOPNOTSUPP}
                    => last.res = KindOf(last.calls[i].errno)

\* a syscall that fails with an error kind is the last one, and its kind is
\* the result
FailsFast(ev) ==
    \A i \in DOMAIN ev.calls :
        ev.calls[i].errno \in Classified
            => i = Len(ev.calls) /\ ev.res = KindOf(ev.calls[i].errno)

PropagatingOps == {"resolution", "get_frequency", "set_frequency", "step_clock",
                   "set_leap_seconds", "set_tai"}

\* C7 as stated: in every Clock operation but error_estimate_update and
\* disable_kernel_ntp_algorithm, a syscall failing with kind e is followed by
\* no other syscall and Err(e) is returned.
ErrorsReturnedImmediately ==
    last.op \in PropagatingOps \cup {"now", "get_tai"} => FailsFast(last)

\* C7 amended: the same for every Clock operation but error_estimate_update,
\* disable_kernel_ntp_algorithm, now and get_tai; now answers a failing
\* adjustment call with a direct clock read whose result it returns, and
\* get_tai answers it with Ok(0).
ErrorsReturnedImmediatelyButQueries ==
    /\ last.op \in PropagatingOps => FailsFast(last)
    /\ (last.op = "now" /\ last.calls[1].errno \in Classified)
          => /\ Len(last.calls) = 2
             /\ last.calls[2].call = "clock_gettime"
             /\ last.calls[2].errno = 0 => last.res = Ok
             /\ last.calls[2].errno \in Classified
                   => last.res = KindOf(last.calls[2].errno)
    /\ (last.op = "get_tai" /\ last.calls[1].errno \in Classified)
          => Len(last.calls) = 1 /\ last.res = Ok /\ last.val = 0

\* step_clock adjusted the clock, its direct read failed and it returned that
\* failure
StepClockReadFailed ==
    /\ last.op = "step_clock"
    /\ Len(last.calls) = 2
    /\ last.calls[2] = Call("clock_gettime", ENODEV)
    /\ last.res = "NoDevice"

SteeringOps == {"set_frequency", "step_clock", "set_leap_seconds",
                "disable_kernel_ntp_algorithm", "set_tai", "error_estimate_update"}

\* C8: a steering operation that returns an error leaves the kernel clock
\* state as it was.
AllOrNothing ==
    [][(Returned /\ last'.op \in SteeringOps /\ last'.res \in ErrorKinds)
          => kernel' = kernel]_vars

\* C9: convert_errno maps EINVAL, ENODEV, EOPNOTSUPP, EPERM and EACCES to
\* Invalid, NoDevice, NotSupported, NoPermission and NoAccess; for every other
\* error number it aborts and yields no Error value.
ErrnoClassified ==
    last.op = "convert_errno"
        => /\ last.arg = EINVAL => last.res = "Invalid"
           /\ last.arg = ENODEV => last.res = "NoDevice"
           /\ last.arg = EOPNOTSUPP => last.res = "NotSupported"
           /\ last.arg = EPERM => last.res = "NoPermission"
           /\ last.arg = EACCES => last.res = "NoAccess"
           /\ last.arg \notin {EINVAL, ENODEV, EOPNOTSUPP, EPERM, EACCES}
                 => last.res = Panic

\* a syscall failed with EFAULT and the process aborted
EfaultAborted ==
    /\ last.op = "convert_errno"
    /\ last.arg = EFAULT
    /\ last.res = Panic

\* C10: when the reply's time field is non-zero, extract_current_time
\* decodes it and issues no direct read; it reads the clock directly only
\* when the time field is zero.
EmbeddedTimeDecoded ==
    (last.op \in {"now", "set_frequency", "step_clock"}
        /\ last.calls[1].errno = 0)
        => IF last.reply.time # NoTime
           THEN /\ Len(last.calls) = 1
                /\ last.res = Ok
                /\ last.ts.seconds = last.reply.time.tv_sec
           ELSE /\ Len(last.calls) = 2
                /\ last.calls[2].call = "clock_gettime"

RmwOps == {"set_leap_seconds", "disable_kernel_ntp_algorithm"}

LoopBits == {STA_PLL, STA_FLL, STA_PPSTIME, STA_PPSFREQ}

\* C11 as stated: after a disable_kernel_ntp_algorithm that returned Ok with
\* no concurrent writer, the PLL, FLL, PPSTIME and PPSFREQ bits of the kernel
\* status are clear, every other bit is as it was before the call, and the
\* request written back has mode = status only.
KernelLoopsDisabled ==
    (last.op = "disable_kernel_ntp_algorithm" /\ last.res = Ok /\ ~last.raced)
        => /\ kernel.status \cap LoopBits = {}
           /\ kernel.status \ LoopBits = last.reply.status \ LoopBits
           /\ last.req.modes = {MOD_STATUS}

\* C11 amended: the same after a disable_kernel_ntp_algorithm whose read and
\* whose write-back both succeeded; when the write-back is refused with
\* NotSupported the operation returns Ok as well and the kernel status is left
\* as it was read, loop bits included.
KernelLoopsDisabledWhenWritten ==
    (last.op = "disable_kernel_ntp_algorithm" /\ Len(last.calls) = 2 /\ ~last.raced)
        => /\ last.req.modes = {MOD_STATUS}
           /\ last.calls[2].errno = 0
                => /\ last.res = Ok
                   /\ kernel.status \cap LoopBits = {}
                   /\ kernel.status \ LoopBits = last.reply.status \ LoopBits
           /\ last.calls[2].errno = EOPNOTSUPP
                => /\ last.res = Ok
                   /\ kernel.status = last.reply.status

\* the loops of a synchronised clock were disabled and its other bits kept
LoopsOfSynchronisedClockDisabled ==
    /\ last.op = "disable_kernel_ntp_algorithm"
    /\ last.res = Ok
    /\ ~last.raced
    /\ last.calls[2].errno = 0
    /\ LoopBits \subseteq last.reply.status
    /\ kernel.status = {STA_UNSYNC, STA_NANO}

\* C12: the write of set_leap_seconds(x), whatever x and the status word,
\* leaves every status bit but the three leap bits (insert, delete,
\* unsynchronized) as the operation read it, which without a concurrent writer
\* is as it was; the request has mode = status only and the frequency, the
\* error estimates, the TAI offset and the time of the clock are unchanged.
LeapWriteFrame ==
    [][(pc = "set_leap_seconds" /\ pc' = "idle")
          => /\ last'.req.modes = {MOD_STATUS}
             /\ ~raced => kernel'.status \ LeapBits = kernel.status \ LeapBits
             /\ last'.calls[2].errno = 0
                   => kernel'.status \ LeapBits = timex.status \ LeapBits
             /\ kernel'.freq = kernel.freq
             /\ kernel'.maxerror = kernel.maxerror
             /\ kernel'.esterror = kernel.esterror
             /\ kernel'.tai = kernel.tai
             /\ kernel'.stepped = kernel.stepped]_vars

\* Leap59 was set on a synchronised clock holding a TAI offset
LeapBitAdded ==
    /\ last.op = "set_leap_seconds"
    /\ last.res = Ok
    /\ ~last.raced
    /\ last.arg = "Leap59"
    /\ STA_PLL \in last.reply.status
    /\ kernel.status = last.reply.status \cup {STA_DEL}
    /\ kernel.tai = MaxTai

PublicOps == {"now", "resolution", "get_frequency", "set_frequency", "step_clock",
              "set_leap_seconds", "error_estimate_update",
              "disable_kernel_ntp_algorithm", "set_tai", "get_tai", "system_offset"}

\* C13 as stated: every public operation that returns has issued exactly one
\* syscall, a read-modify-write operation exactly two, on every path.
OneOrTwoSyscalls ==
    (last.op \in PublicOps /\ last.res \in {Ok} \cup ErrorKinds)
        => Len(last.calls) = IF last.op \in RmwOps THEN 2 ELSE 1

\* C13 amended: resolution, get_frequency, error_estimate_update, set_tai and
\* get_tai issue exactly one syscall; now issues one when its adjustment call
\* succeeds with a time to decode and two otherwise; set_frequency and
\* step_clock issue one when the adjustment call fails or the reply holds a
\* time to decode and two otherwise; a read-modify-write operation issues two,
\* or one when its read fails; system_offset issues none on a clock without a
\* device handle, two when the correlation ioctl succeeds and four to seven
\* in its fallback.
SyscallsPerOperation ==
    (last.op \in PublicOps /\ last.res \in {Ok} \cup ErrorKinds)
        => /\ last.op \in {"resolution", "get_frequency", "error_estimate_update",
                           "set_tai", "get_tai"}
                => Len(last.calls) = 1
           /\ last.op = "now"
                => Len(last.calls) =
                      IF last.calls[1].errno = 0 /\ has_embedded_time(last.reply)
                      THEN 1 ELSE 2
           /\ last.op \in {"set_frequency", "step_clock"}
                => Len(last.calls) =
                      IF last.calls[1].errno # 0 \/ has_embedded_time(last.reply)
                      THEN 1 ELSE 2
           /\ last.op \in RmwOps
                => Len(last.calls) = IF last.calls[1].errno # 0 THEN 1 ELSE 2
           /\ last.op = "system_offset"
                => IF clock = "CLOCK_REALTIME" THEN Len(last.calls) = 0
                   ELSE IF last.calls[1].errno = 0 THEN Len(last.calls) = 2
                   ELSE Len(last.calls) \in 4..7

\* the fallback of system_offset returned after seven syscalls
FallbackSevenSyscalls ==
    /\ last.op = "system_offset"
    /\ last.res = Ok
    /\ Len(last.calls) = 7

\* C14: a read-modify-write operation is not atomic: when another process
\* changes the status word between its read and its write and the write
\* succeeds, the kernel holds the word computed from the stale read (the
\* kernel-owned bits aside), so the other process's change is lost.
StaleStatusWritten ==
    (last.op \in RmwOps /\ last.raced /\ Len(last.calls) = 2
        /\ last.calls[2].errno = 0)
        => /\ last.req.status =
                 IF last.op = "set_leap_seconds"
                 THEN last.reply.status \cup as_status_bit(last.arg)
                 ELSE last.reply.status \ LoopBits
           /\ kernel.status \ STA_RONLY = last.req.status \ STA_RONLY

\* set_leap_seconds(Leap59) read an empty status word, another process set a
\* bit, and the write left the delete bit alone: the other bit is gone
ExternalChangeLost ==
    /\ last.op = "set_leap_seconds"
    /\ last.raced
    /\ last.res = Ok
    /\ last.arg = "Leap59"
    /\ last.reply.status = {}
    /\ kernel.status = {STA_DEL}

\* floor(d / 1000) of a Duration d, one lap being 18_446_744_073_709_551
\* whole microseconds here
MicrosOf(d) == Duration(d.laps, (TWO_64_MOD_1000 * d.laps + d.ns) \div 1000)

\* C15: for every pair of durations, error_estimate_timex builds a record
\* with mode = estimated error | maximum error, esterror and maxerror the
\* whole microseconds of the two durations, and every other field zero.
ErrorEstimateEncoded ==
    last.op = "error_estimate_timex"
        => /\ last.req = [EMPTY_TIMEX EXCEPT !.modes = {MOD_ESTERROR, MOD_MAXERROR},
                                             !.esterror = last.req.esterror,
                                             !.maxerror = last.req.maxerror]
           /\ Duration(0, last.req.esterror) = MicrosOf(last.arg[1])
           /\ Duration(0, last.req.maxerror) = MicrosOf(last.arg[2])

\* C16: for every TimeOffset, step_clock_timex builds a record with mode =
\* set offset | nanosecond precision, time.tv_sec the offset's seconds and
\* time.tv_usec the offset's nanos unscaled, and every other field zero.
StepRequestEncoded ==
    last.op = "step_clock_timex"
        => last.req = [EMPTY_TIMEX EXCEPT
                          !.modes = {ADJ_SETOFFSET, ADJ_NANO},
                          !.time = [tv_sec |-> last.arg.seconds,
                                    tv_usec |-> last.arg.nanos]]

\* the request for a step of 1.2 s was built
StepOfOnePointTwoBuilt ==
    /\ last.op = "step_clock_timex"
    /\ last.arg = [seconds |-> 1, nanos |-> 200000000]
    /\ last.req.time = [tv_sec |-> 1, tv_usec |-> 200000000]

\* C17: safe_from_raw_fd keeps fd and gives the identity whose low three bits
\* are 011 and whose upper 29 bits are the low 29 bits of NOT fd; for
\* 0 <= fd < 2^28 the identity is -8 * fd - 5, it is negative, so it is neither
\* CLOCK_REALTIME nor CLOCK_TAI, and NOT (identity >> 3) is fd.
IdentityFromHandle ==
    last.op = "safe_from_raw_fd"
        => /\ last.val.fd = last.arg
           /\ last.val.id % 8 = 3
           /\ (last.val.id \div 8) % TWO_29 = (-last.arg - 1) % TWO_29
           /\ last.arg \in 0..(TWO_28 - 1)
                => /\ last.val.id = -8 * last.arg - 5
                   /\ last.val.id < 0
                   /\ last.val.id \notin {CLOCK_REALTIME, CLOCK_TAI}
                   /\ -(last.val.id \div 8) - 1 = last.arg

\* the largest handle below 2^28 was opened
LargestHandleOpened ==
    /\ last.op = "safe_from_raw_fd"
    /\ last.arg = TWO_28 - 1
    /\ last.val.id = -2147483645

TsLeq(x, y) ==
    x.seconds < y.seconds \/ (x.seconds = y.seconds /\ x.nanos <= y.nanos)

\* C19: in the fallback of system_offset the syscalls after the ioctl are
\* those of a read of CLOCK_TAI, then of the hardware clock, then of CLOCK_TAI;
\* the triple returned is what the first, the second and the third read gave,
\* so that before <= after when the second TAI read gave no earlier instant
\* than the first.
SandwichReturned ==
    (last.op = "system_offset" /\ Len(last.calls) > 0 /\ last.calls[1].errno # 0)
        => \E a \in 2..Len(last.calls), b \in 2..Len(last.calls) :
              /\ a < b
              /\ b < Len(last.calls)
              /\ \A i \in 2..Len(last.calls) :
                    last.calls[i].on = IF i <= a \/ i > b THEN "CLOCK_TAI" ELSE clock
              /\ last.res = Ok
                    => /\ last.val = <<last.calls[a].got, last.calls[b].got,
                                       last.calls[Len(last.calls)].got>>
                       /\ TsLeq(last.calls[a].got, last.calls[Len(last.calls)].got)
                             => TsLeq(last.val[1], last.val[3])

\* the fallback returned three different instants, the first from a direct
\* read, the other two decoded from the replies of the adjustment calls
SandwichBracketed ==
    /\ last.op = "system_offset"
    /\ last.res = Ok
    /\ Len(last.calls) = 5
    /\ last.val = <<Timestamp(0, 999999999), Timestamp(MaxSec, 999999000),
                    Timestamp(MaxSec, 999999)>>

\* C20: ignore_not_supported(r) is Ok for r = Err(NotSupported) and r itself
\* for Ok and for every other error kind.
OnlyNotSupportedIgnored ==
    last.op = "ignore_not_supported"
        => last.res = IF last.arg = "NotSupported" THEN Ok ELSE last.arg

\* Err(NotSupported) was turned into Ok
NotSupportedTurnedOk ==
    /\ last.op = "ignore_not_supported"
    /\ last.arg = "NotSupported"
    /\ last.res = Ok

DirectStepWritesNormalizedSum ==
    (last.op = "step_clock_by_timespec" /\ Len(last.calls) = 2)
        => /\ last.val.tv_nsec \in 0..(NANOS_PER_SEC - 1)
           /\ last.val.tv_sec - (last.raw.tv_sec + last.arg.seconds) \in 0..1
           /\ last.val.tv_nsec + (last.val.tv_sec - (last.raw.tv_sec + last.arg.seconds))
                                    * NANOS_PER_SEC
                = last.raw.tv_nsec + last.arg.nanos
           /\ last.res = Ok
                => last.ts = Timestamp(last.val.tv_sec, last.val.tv_nsec)

\* C23: when extract_current_time decodes the time field of the reply, the
\* nanos returned are the raw sub-second field as it is if the reply's status
\* has the nanosecond bit, and the field times 1000 otherwise; a direct read
\* is taken at nanosecond precision, its nanos being those read.
EmbeddedTimePrecision ==
    (last.op \in {"now", "set_frequency", "step_clock"} /\ last.res = Ok)
        => IF Len(last.calls) = 1
           THEN IF STA_NANO \in last.reply.status
                THEN last.ts.nanos = last.reply.time.tv_usec
                ELSE /\ last.ts.nanos % 1000 = 0
                     /\ last.ts.nanos \div 1000 = last.reply.time.tv_usec
           ELSE last.ts.nanos = last.raw.tv_nsec

\* C24: a read-modify-write operation first reads; if the read fails it
\* returns the failure with no write issued and the kernel left as it was.
\* A write is issued only after a read that succeeded, and the status it
\* writes is computed from the status that read gave.
WriteOnlyAfterRead ==
    [][/\ (last'.op \in RmwOps /\ ops' # ops)
            => /\ kernel' = kernel
               /\ Len(last'.calls) = 1
               /\ last'.req.modes = {}
               /\ IF last'.calls[1].errno # 0
                  THEN pc' = "idle" /\ last'.res \notin {Ok, "pending"}
                  ELSE /\ pc' = last'.op
                       /\ last'.res = "pending"
                       /\ last'.reply.status = kernel.status
       /\ (pc \in RmwOps /\ pc' = "idle")
            => /\ last.res = "pending"
               /\ last.calls = <<Call(adjtime_name, 0)>>
               /\ Len(last'.calls) = 2
               /\ last'.calls[1] = last.calls[1]
               /\ last'.req.modes = {MOD_STATUS}
               /\ last'.req.status =
                     IF pc = "set_leap_seconds"
                     THEN last.reply.status \cup as_status_bit(arg)
                     ELSE last.reply.status \ LoopBits]_vars

\* set_leap_seconds on a clock with its loops running, the read refused:
\* one call, the refusal returned, the status word still whole
ReadRefusedNothingWritten ==
    /\ last.op = "set_leap_seconds"
    /\ last.arg = "Leap61"
    /\ last.calls = <<Call(adjtime_name, EPERM)>>
    /\ last.res = "NoPermission"
    /\ pc = "idle"
    /\ STA_PLL \in kernel.status

QueryOps == {"now", "resolution", "get_frequency", "get_tai"}

\* C25: now, resolution, get_frequency and get_tai pass the kernel a record
\* with mode = none only (resolution passes it none at all): whatever the
\* call gives, the kernel clock state after the operation is the state
\* before it, and so it is across any sequence of them.
QueriesLeaveKernelUnchanged ==
    [][(last'.op \in QueryOps /\ ops' # ops)
            => /\ kernel' = kernel
               /\ last'.req.modes = {}
               /\ last'.req = EMPTY_TIMEX
               /\ last'.op = "resolution" => last'.calls[1].call = "clock_getres"
               /\ last'.op # "resolution"
                    => last'.calls[1].call \in {"ntp_adjtime", "clock_adjtime"}]_vars

\* get_tai on a clock with its loops running and a TAI offset: the offset is
\* returned and the kernel still holds it, the status word whole
TaiQueriedKernelWhole ==
    /\ last.op = "get_tai"
    /\ last.res = Ok
    /\ last.calls = <<Call("clock_adjtime", 0)>>
    /\ last.val = MaxTai
    /\ kernel.tai = MaxTai
    /\ LoopBits \subseteq kernel.status

\* C26: the number into_raw_os_error gives for an Error kind is classified by
\* convert_errno as that kind again, and it is the number of no other kind.
ErrnoRoundTrip ==
    last.op = "into_raw_os_error"
        => /\ last.res = last.arg
           /\ last.val \in {EPERM, EACCES, EINVAL, ENODEV, EOPNOTSUPP}
           /\ \A other \in ErrorKinds \ {last.arg} : into_raw_os_error(other) # last.val

\* NoAccess goes to EACCES and comes back as NoAccess
NoAccessRoundTrip ==
    /\ last.op = "into_raw_os_error"
    /\ last.arg = "NoAccess"
    /\ last.val = EACCES
    /\ last.res = "NoAccess"
====
